---- MODULE Spec2Model ----
(***************************************************************************)
(* Spider (Arachnida/Spider/src/main.rs): a recursive, depth-bounded image *)
(* crawler.  One get_page_content future per (url, current_depth); the     *)
(* futures of one page's links are driven together by join_all.  Every     *)
(* `.await` of the source is a scheduling point of the model: between two  *)
(* of them a future runs without interruption.                             *)
(*                                                                         *)
(* A URL string is modelled by its components: scheme, host and the path   *)
(* as a sequence of segments, each segment a sequence of '.'-separated     *)
(* pieces ("/img/1.jpg" is << <<"img">>, <<"1","jpg">> >>; a path ending   *)
(* in '/' ends in the empty segment <<"">>), and the query, a sequence of  *)
(* '.'-separated pieces too (<< >> when the URL has none).                 *)
(***************************************************************************)
EXTENDS Integers, Sequences, FiniteSets, TLC

\* largest value of -l (Settings.depth) the model explores
MaxDepth == 3

(***************************************************************************)
(* The web the crawler is run against.                                     *)
(***************************************************************************)
Site == "site.example"
Other == "other.example"

Abs(h, p) == [scheme |-> "https", host |-> h, path |-> p, query |-> << >>]
Rel(p) == [scheme |-> "", host |-> "", path |-> p, query |-> << >>]
DataRef(p) == [scheme |-> "data", host |-> "", path |-> p, query |-> << >>]
WithQuery(u, q) == [u EXCEPT !.query = q]

S == Abs(Site, << >>)
A == Abs(Site, << <<"a">> >>)
B == Abs(Site, << <<"b">> >>)
C == Abs(Site, << <<"c">> >>)
D == Abs(Site, << <<"d">> >>)
X == Abs(Site, << <<"x">> >>)
Y == Abs(Site, << <<"y">> >>)
O == Abs(Other, << <<"x">> >>)
\* a URL the server has no page for, and the page its error document links to
Gone == Abs(Site, << <<"gone">> >>)
H == Abs(Site, << <<"help">> >>)
\* "site.example": a seed given without a scheme
BadSeed == Rel(<< <<"site", "example">> >>)
\* "https://": an href that no base can resolve (empty host)
BadRef == Abs("", << >>)

Img1 == Rel(<< <<"img">>, <<"1", "jpg">> >>)
Img2 == Abs(Site, << <<"img">>, <<"2", "png">> >>)
Img3 == Rel(<< <<"img">>, <<"3", "JPG">> >>)
ImgSvg == Rel(<< <<"img">>, <<"4", "svg">> >>)
ImgData == DataRef(<< <<"image">>, <<"png;base64,AAAA", "png">> >>)
ImgA == Rel(<< <<"a", "gif">> >>)
ImgLogo == Rel(<< <<"logo", "png">> >>)
\* an image the server has no file for
ImgGone == Rel(<< <<"missing", "gif">> >>)
\* "/images/?f=x.png": the path ends in '/', the query in ".png"
ImgDir == WithQuery(Rel(<< <<"images">>, <<"">> >>), <<"f=x", "png">>)

NoPage == [srcs |-> << >>, hrefs |-> << >>]

\* the document served for each URL: the src attributes of its img elements
\* and the href attributes of its anchors, in document order
Web(u) ==
  CASE u = S -> [srcs |-> <<Img1, ImgSvg, Img2, ImgData, Img3>>,
                 hrefs |-> <<A, Rel(<< <<"b">> >>), O>>]
    [] u = A -> [srcs |-> <<ImgA>>, hrefs |-> <<C, BadRef>>]
    [] u = B -> [srcs |-> << >>, hrefs |-> <<C, D>>]
    [] u = C -> [srcs |-> << >>, hrefs |-> <<D>>]
    [] u = D -> [srcs |-> << >>, hrefs |-> <<X, S>>]
    [] u = X -> [srcs |-> << >>, hrefs |-> <<Y>>]
    [] u = Gone -> [srcs |-> <<ImgLogo>>, hrefs |-> <<H>>]
    [] u = H -> [srcs |-> <<ImgGone, ImgDir>>, hrefs |-> << >>]
    [] OTHER -> NoPage

\* the status line of the response to a GET that got a response: the source
\* never reads it (no error_for_status, no status())
Status(u) ==
  IF u.path \in {Gone.path, ImgGone.path} THEN "404 Not Found" ELSE "200 OK"

Seeds == {S, BadSeed, Gone, H}

(***************************************************************************)
(* url::Url as the source uses it.                                         *)
(***************************************************************************)
\* Url::parse(s).is_ok(): an absolute URL with a host
UrlParseOk(s) == s.scheme \in {"http", "https"} /\ s.host # ""

\* base_url.join(r): Ok(resolved) or Err
UrlJoin(base, r) ==
  IF r.scheme = ""
    THEN [ok |-> TRUE, url |-> [scheme |-> base.scheme, host |-> base.host,
                                path |-> r.path, query |-> r.query]]
  ELSE IF r.scheme \in {"http", "https"}
    THEN [ok |-> r.host # "", url |-> r]
  ELSE [ok |-> TRUE, url |-> r]

\* Url::host(): None for a URL that cannot have one (data:)
UrlHost(u) == IF u.scheme \in {"http", "https"} THEN u.host ELSE "<none>"

\* str::to_lowercase on the extensions that occur
ToLower(s) ==
  CASE s = "JPG" -> "jpg"
    [] s = "PNG" -> "png"
    [] OTHER -> s

valid_extensions == {"jpg", "jpeg", "png", "gif", "bmp"}

\* url.split('.').last(): the text after the last '.' of the whole attribute
\* value, query included; it spans a '?' when the query holds no '.', and
\* a '/' when the last segment holds none
LastDotPiece(src) ==
  IF Len(src.query) >= 2 THEN src.query[Len(src.query)]
  ELSE IF src.query # << >> THEN "<spans a question mark>"
  ELSE IF src.path # << >> /\ Len(src.path[Len(src.path)]) >= 2
    THEN LET seg == src.path[Len(src.path)] IN seg[Len(seg)]
    ELSE "<spans a slash>"

has_valid_extension(src) == ToLower(LastDotPiece(src)) \in valid_extensions

\* the image loop without its data: test
starts_with_data_untested(src) == FALSE

\* src.starts_with("data:")
starts_with_data(src) == src.scheme = "data"

RECURSIVE ExtractImgs(_, _)
ExtractImgs(base, srcs) ==
  IF srcs = << >> THEN << >>
  ELSE LET src == Head(srcs)
           j == UrlJoin(base, src)
           rest == ExtractImgs(base, Tail(srcs))
       IN IF ~starts_with_data(src) /\ has_valid_extension(src) /\ j.ok
            THEN <<j.url>> \o rest
            ELSE rest

\* the link loop without its host test
SameHost_untested(absolute_url, base_url) == TRUE

\* the host test of the link loop
SameHost(absolute_url, base_url) == UrlHost(absolute_url) = UrlHost(base_url)

RECURSIVE ExtractLinks(_, _)
ExtractLinks(base, hrefs) ==
  IF hrefs = << >> THEN << >>
  ELSE LET j == UrlJoin(base, Head(hrefs))
           rest == ExtractLinks(base, Tail(hrefs))
       IN IF j.ok /\ SameHost(j.url, base)
            THEN <<j.url>> \o rest
            ELSE rest

(***************************************************************************)
(* State.                                                                  *)
(***************************************************************************)
VARIABLES
  args_url,      \* Args.url, the seed
  settings,      \* Settings: recursive, depth (-l), path (-p)
  visited_urls,  \* the HashSet behind Arc<Mutex<..>>
  tasks,         \* the get_page_content futures, by position in the call tree
  files,         \* the files written under settings.path
  out,           \* the kinds of line printed to stdout / stderr
  main_pc        \* main: "await" on the top-level call, then "exited"

vars == <<args_url, settings, visited_urls, tasks, files, out, main_pc>>

\* the top-level call of main; the i-th link of task t is Append(t, i)
Root == << >>

\* a get_page_content future that has not been polled yet
NewTask(url, current_depth) ==
  [url |-> url, depth |-> current_depth, pc |-> "start",
   claimed |-> "none",    \* what should_process_url returned
   fetch |-> "none",      \* how fetch_and_parse_page ended
   imgs |-> << >>, links |-> << >>,
   k |-> 1,               \* position of the image loop in imgs
   dl |-> << >>,          \* the outcome of each download_image so far
   nkids |-> 0,           \* futures handed to join_all
   result |-> "none"]     \* Ok / Err returned to the caller

Init ==
  /\ args_url \in Seeds
  /\ settings \in [recursive : BOOLEAN, depth : 0..MaxDepth, path : {"./data"}]
  /\ visited_urls = {}
  /\ tasks = [t \in {Root} |-> NewTask(args_url, 0)]
  /\ files = {}
  /\ out = {}
  /\ main_pc = "await"

(***************************************************************************)
(* get_page_content, up to the fetch.                                      *)
(***************************************************************************)
\* the call returns r to its caller
Return(task, r) == [task EXCEPT !.pc = "done", !.result = r]

\* the gate without its non-recursive half
Gate_recursive_only(st, current_depth) ==
  st.recursive /\ current_depth > st.depth

\* the depth/mode gate
Gate(st, current_depth) ==
  \/ st.recursive /\ current_depth > st.depth
  \/ ~st.recursive /\ current_depth >= 1

\* the claim without its insert
should_process_url_no_insert(url, visited) ==
  [ret |-> url \notin visited, visited |-> visited]

\* the claim without its membership test
should_process_url_no_test(url, visited) ==
  [ret |-> TRUE, visited |-> visited \cup {url}]

\* contains + insert under one MutexGuard; no await while it is held
should_process_url(url, visited) ==
  IF url \in visited
    THEN [ret |-> FALSE, visited |-> visited]
    ELSE [ret |-> TRUE, visited |-> visited \cup {url}]

\* first poll of the future: gate, then the claim; st is the Settings the
\* call was given
ClaimUnder(t, st) ==
  /\ tasks[t].pc = "start"
  /\ LET task == tasks[t]
         r == should_process_url(task.url, visited_urls)
     IN IF Gate(st, task.depth)
          THEN /\ tasks' = [tasks EXCEPT ![t] = Return(task, "Ok")]
               /\ UNCHANGED <<visited_urls, out>>
          ELSE /\ visited_urls' = r.visited
               /\ IF r.ret
                    THEN /\ tasks' = [tasks EXCEPT ![t] =
                                        [task EXCEPT !.pc = "fetch", !.claimed = "true"]]
                         /\ out' = out \cup {"Processing"}
                    ELSE /\ tasks' = [tasks EXCEPT ![t] =
                                        [Return(task, "Ok") EXCEPT !.claimed = "false"]]
                         /\ UNCHANGED out
  /\ UNCHANGED <<args_url, settings, files, main_pc>>

Claim(t) == ClaimUnder(t, settings)

(***************************************************************************)
(* fetch_and_parse_page and the match on its result.                       *)
(***************************************************************************)
\* the page error returned to the caller, as `?` would
page_error_propagated(task) == [Return(task, "Err") EXCEPT !.fetch = "err"]

\* the Err arm fetching again instead of returning
page_error_retry(task) == [task EXCEPT !.fetch = "err"]

\* Err(e) => eprintln, return Ok(())
page_error(task) == [Return(task, "Ok") EXCEPT !.fetch = "err"]

\* the recursion step taken before the image loop
page_ok_recurse_first(task, imgs, links) ==
  [task EXCEPT !.pc = "download", !.fetch = "ok", !.imgs = imgs, !.links = links,
               !.k = Len(imgs) + 1]

\* Ok((i, l)) => (i, l)
page_ok(task, imgs, links) ==
  [task EXCEPT !.pc = "download", !.fetch = "ok", !.imgs = imgs, !.links = links]

fetch_and_parse_page(t) ==
  /\ tasks[t].pc = "fetch"
  /\ LET task == tasks[t]
         page == Web(task.url)
     IN \E net \in {"ok", "err"} :
          IF UrlParseOk(task.url) /\ net = "ok"
            THEN /\ tasks' = [tasks EXCEPT ![t] =
                       page_ok(task, ExtractImgs(task.url, page.srcs),
                                     ExtractLinks(task.url, page.hrefs))]
                 /\ UNCHANGED out
            ELSE /\ tasks' = [tasks EXCEPT ![t] = page_error(task)]
                 /\ out' = out \cup {"Error processing"}
  /\ UNCHANGED <<args_url, settings, visited_urls, files, main_pc>>

(***************************************************************************)
(* The image loop and download_image.                                      *)
(***************************************************************************)
\* parsed_url.path().split('/').last(): of "/" and of a path ending in '/'
\* it is Some(""), so unwrap_or never supplies "unknown.jpg"
Filename(img_url) ==
  IF img_url.path = << >> THEN <<"">> ELSE img_url.path[Len(img_url.path)]

\* File::create(base_path + "/" + name): a name that is empty names the
\* directory itself, which cannot be created as a file
CanCreate(name) == name # <<"">>

\* where each `?` of download_image can leave it
DownloadOutcomes == {"ok", "mkdir_err", "send_err", "write_err"}

\* the image loop left at the first failed download
image_done_break(task, ok) ==
  [task EXCEPT !.dl = Append(@, ok),
               !.k = IF ok THEN @ + 1 ELSE Len(task.imgs) + 1]

\* the image error returned to the caller, as `?` would
image_done_propagated(task, ok) ==
  IF ok THEN [task EXCEPT !.dl = Append(@, ok), !.k = @ + 1]
        ELSE Return([task EXCEPT !.dl = Append(@, ok)], "Err")

\* if let Err(e) = download_image(..) { eprintln; continue }
image_done(task, ok) == [task EXCEPT !.dl = Append(@, ok), !.k = @ + 1]

\* every download of the page started together, as join_all would
image_loop_all_at_once(n, k) == k..n

\* for img_url in &imgs { download_image(..).await }: with the loop at
\* position k of n, the download_image futures that are being awaited
image_loop(n, k) == IF k <= n THEN {k} ELSE {}

\* the downloads of task t that are in flight
InFlight(t) ==
  IF tasks[t].pc = "download" THEN image_loop(Len(tasks[t].imgs), tasks[t].k) ELSE {}

download_image(t) ==
  /\ tasks[t].pc = "download"
  /\ \E i \in InFlight(t) :
     LET task == tasks[t]
         img_url == task.imgs[i]
     IN \E o \in DownloadOutcomes :
          /\ o = "ok" => CanCreate(Filename(img_url))
          /\ tasks' = [tasks EXCEPT ![t] = image_done(task, o = "ok")]
          /\ IF o = "ok"
               THEN /\ files' = files \cup {Filename(img_url)}
                    /\ out' = out \cup {"Downloaded"}
               ELSE /\ out' = out \cup {"Failed to download"}
                    /\ UNCHANGED files
  /\ UNCHANGED <<args_url, settings, visited_urls, main_pc>>

(***************************************************************************)
(* The recursion step and process_links.                                   *)
(***************************************************************************)
\* the recursion test without the mode
ShouldRecurse_any_mode(st, current_depth) == current_depth < st.depth

\* the recursion test one level too deep
ShouldRecurse_inclusive(st, current_depth) ==
  st.recursive /\ current_depth <= st.depth

\* if settings.recursive && current_depth < settings.depth
ShouldRecurse(st, current_depth) == st.recursive /\ current_depth < st.depth

\* after the image loop: either process_links builds one future per link
\* and hands them to join_all, or the call returns; st is the Settings the
\* call was given
process_links_under(t, st) ==
  /\ tasks[t].pc = "download"
  /\ tasks[t].k > Len(tasks[t].imgs)
  /\ LET task == tasks[t]
         n == Len(task.links)
         kids == {Append(t, i) : i \in 1..n}
     IN IF ShouldRecurse(st, task.depth)
          THEN tasks' = [id \in DOMAIN tasks \cup kids |->
                  IF id = t THEN [task EXCEPT !.pc = "join", !.nkids = n]
                  ELSE IF id \in kids
                    THEN NewTask(task.links[id[Len(id)]], task.depth + 1)
                  ELSE tasks[id]]
          ELSE tasks' = [tasks EXCEPT ![t] = Return(task, "Ok")]
  /\ UNCHANGED <<args_url, settings, visited_urls, files, out, main_pc>>

process_links(t) == process_links_under(t, settings)

\* only the first future awaited instead of all of them
Kids_first_only(t) == {Append(t, i) : i \in 1..(IF tasks[t].nkids > 0 THEN 1 ELSE 0)}

\* the futures process_links hands to join_all
Kids(t) == {Append(t, i) : i \in 1..tasks[t].nkids}

\* what process_links returns once join_all has every result
links_result(results) == "Ok"

\* join_all completes when every future has; the results are only logged
join_all(t) ==
  /\ tasks[t].pc = "join"
  /\ \A k \in Kids(t) : tasks[k].pc = "done"
  /\ LET results == {tasks[k].result : k \in Kids(t)}
     IN /\ out' = IF "Err" \in results
                    THEN out \cup {"Error in recursive fetch"} ELSE out
        /\ tasks' = [tasks EXCEPT ![t] = Return(tasks[t], links_result(results))]
  /\ UNCHANGED <<args_url, settings, visited_urls, files, main_pc>>

(***************************************************************************)
(* main: the match on the top-level call.                                  *)
(***************************************************************************)
main ==
  /\ main_pc = "await"
  /\ tasks[Root].pc = "done"
  /\ out' = out \cup {IF tasks[Root].result = "Ok"
                        THEN "Scraping completed successfully!"
                        ELSE "Error during scraping"}
  /\ main_pc' = "exited"
  /\ UNCHANGED <<args_url, settings, visited_urls, tasks, files>>

Next ==
  \/ \E t \in DOMAIN tasks : Claim(t)
  \/ \E t \in DOMAIN tasks : fetch_and_parse_page(t)
  \/ \E t \in DOMAIN tasks : download_image(t)
  \/ \E t \in DOMAIN tasks : process_links(t)
  \/ \E t \in DOMAIN tasks : join_all(t)
  \/ main

Spec == Init /\ [][Next]_vars

\* a step of the program whose calls were given the Settings st
NextUnder(st) ==
  \/ \E t \in DOMAIN tasks : ClaimUnder(t, st)
  \/ \E t \in DOMAIN tasks : fetch_and_parse_page(t)
  \/ \E t \in DOMAIN tasks : download_image(t)
  \/ \E t \in DOMAIN tasks : process_links_under(t, st)
  \/ \E t \in DOMAIN tasks : join_all(t)
  \/ main

\* get_page_content as a function of its arguments: two calls on one URL,
\* each at any current_depth, sharing one registry and awaited together.
\* (From main the gate is never reached: process_links is only called
\* where current_depth < depth.)
GateInit ==
  /\ args_url = S
  /\ settings \in [recursive : BOOLEAN, depth : 0..MaxDepth, path : {"./data"}]
  /\ visited_urls = {}
  /\ \E u \in {Gone, H} : \E d1, d2 \in 0..(MaxDepth + 1) :
       tasks = [t \in {Root, <<1>>, <<2>>} |->
                  IF t = Root
                    THEN [NewTask(args_url, 0) EXCEPT !.pc = "join", !.nkids = 2]
                    ELSE NewTask(u, IF t = <<1>> THEN d1 ELSE d2)]
  /\ files = {}
  /\ out = {}
  /\ main_pc = "await"

GateSpec == GateInit /\ [][Next]_vars

\* the scheduler drives every future that can make progress
FairSpec == Spec /\ WF_vars(Next)

(***************************************************************************)
(* Vocabulary of the properties.                                           *)
(***************************************************************************)
Tasks == DOMAIN tasks

Parent(t) == SubSeq(t, 1, Len(t) - 1)

\* t got past the dedup gate: fetch_and_parse_page is, or was, called on its url
Fetching(t) == tasks[t].pc = "fetch" \/ tasks[t].fetch # "none"

\* t called should_process_url
Claiming(t) == tasks[t].claimed # "none"

\* the same-host pages a page links to, as a crawl with no failure sees them
LinksOf(u) ==
  IF UrlParseOk(u)
    THEN LET l == ExtractLinks(u, Web(u).hrefs) IN {l[i] : i \in 1..Len(l)}
    ELSE {}

\* the URLs at most n links away from the seed
RECURSIVE Within(_)
Within(n) ==
  IF n = 0 THEN {args_url}
  ELSE LET W == Within(n - 1) IN W \cup UNION {LinksOf(u) : u \in W}

(***************************************************************************)
(* C1: in every crawl and under every interleaving, fetch_and_parse_page   *)
(* is called on no URL string more than once, also when two pages          *)
(* processed concurrently at the same depth link to the same URL.          *)
(***************************************************************************)
C1_NoUrlFetchedTwice ==
  \A t1, t2 \in Tasks :
    Fetching(t1) /\ Fetching(t2) /\ tasks[t1].url = tasks[t2].url => t1 = t2

\* two pages of the same depth, both in their join, have each handed the
\* same URL to a child: one child fetched it, the other was turned away
C1_Witness ==
  \E t1, t2 \in Tasks :
    /\ t1 # t2 /\ t1 # Root /\ t2 # Root
    /\ Parent(t1) # Parent(t2)
    /\ tasks[t1].url = tasks[t2].url
    /\ tasks[t1].depth = tasks[t2].depth
    /\ tasks[Parent(t1)].pc = "join" /\ tasks[Parent(t2)].pc = "join"
    /\ tasks[t1].fetch = "ok"
    /\ tasks[t2].claimed = "false" /\ tasks[t2].fetch = "none"

(***************************************************************************)
(* C2: should_process_url returns true to the first claim of a URL string  *)
(* and false to every later claim of it; no two callers both receive true  *)
(* for the same URL, and every claimed URL is in the registry.             *)
(***************************************************************************)
C2_ClaimOnce ==
  /\ \A t1, t2 \in Tasks :
       /\ tasks[t1].claimed = "true" /\ tasks[t2].claimed = "true"
       /\ tasks[t1].url = tasks[t2].url
       => t1 = t2
  /\ \A t \in Tasks :
       tasks[t].claimed = "false" =>
         \E f \in Tasks : tasks[f].url = tasks[t].url /\ tasks[f].claimed = "true"
  /\ visited_urls = {tasks[t].url : t \in {c \in Tasks : Claiming(c)}}

\* one URL was claimed by two tasks that were both waiting to claim it: the
\* first got true, the later one false
C2_Witness ==
  \E t1, t2 \in Tasks :
    /\ tasks[t1].url = tasks[t2].url
    /\ tasks[t1].depth = tasks[t2].depth
    /\ tasks[t1].claimed = "true"
    /\ tasks[t2].claimed = "false"

(***************************************************************************)
(* C3: with recursive = false only the seed (depth 0) is claimed and       *)
(* fetched, whatever the links of the seed page and whatever the depth     *)
(* setting; no child task is spawned.                                      *)
(***************************************************************************)
C3_NonRecursiveOnlySeed ==
  ~settings.recursive =>
    /\ Tasks = {Root}
    /\ visited_urls \subseteq {args_url}
    /\ \A t \in Tasks : Claiming(t) \/ Fetching(t) =>
         tasks[t].url = args_url /\ tasks[t].depth = 0

\* a finished non-recursive crawl with a depth setting of at least 1 whose
\* seed page was fetched and holds several same-host links
C3_Witness ==
  /\ ~settings.recursive /\ settings.depth >= 1
  /\ main_pc = "exited"
  /\ tasks[Root].fetch = "ok"
  /\ Len(tasks[Root].links) >= 2

(***************************************************************************)
(* C4: with recursive = true and depth setting N, no task deeper than N    *)
(* claims or fetches; a URL first reachable at depth N+1 is neither        *)
(* claimed nor fetched; a page fetched at depth N has every image          *)
(* attempted and none of its links handed to a child.                      *)
(***************************************************************************)
C4_DepthBound ==
  settings.recursive =>
    /\ \A t \in Tasks :
         /\ tasks[t].depth > settings.depth => ~Claiming(t) /\ ~Fetching(t)
         /\ Claiming(t) \/ Fetching(t) => tasks[t].url \in Within(settings.depth)
         /\ tasks[t].depth = settings.depth =>
              /\ tasks[t].nkids = 0
              /\ tasks[t].pc # "join"
              /\ \A i \in 1..Len(tasks[t].links) : Append(t, i) \notin Tasks
              /\ tasks[t].pc = "done" /\ tasks[t].fetch = "ok" =>
                   Len(tasks[t].dl) = Len(tasks[t].imgs)
    /\ visited_urls \subseteq Within(settings.depth)

\* a finished crawl in which a page at depth N >= 1 was fetched, had an
\* image downloaded and links to a URL that is first reachable at depth N+1
C4_Witness ==
  /\ settings.recursive /\ settings.depth >= 1
  /\ main_pc = "exited"
  /\ \E t \in Tasks :
       /\ tasks[t].depth = settings.depth
       /\ tasks[t].fetch = "ok"
       /\ tasks[t].dl # << >> /\ tasks[t].dl[1]
       /\ \E i \in 1..Len(tasks[t].links) :
            tasks[t].links[i] \notin Within(settings.depth)

(***************************************************************************)
(* C5: with recursive = true and depth setting N, and every page fetch     *)
(* succeeding, every same-host URL whose shortest distance from the seed   *)
(* is N links or fewer has been fetched when the crawl completes, in every *)
(* interleaving of the child tasks.                                        *)
(***************************************************************************)
NoFetchFailed ==
  \A t \in Tasks : tasks[t].fetch # "err" /\ Status(tasks[t].url) = "200 OK"

FetchedOk(u) == \E t \in Tasks : tasks[t].url = u /\ tasks[t].fetch = "ok"

C5_AllWithinDepthFetched ==
  main_pc = "exited" /\ settings.recursive /\ NoFetchFailed =>
    \A u \in Within(settings.depth) : FetchedOk(u)

(***************************************************************************)
(* C6: every URL claimed or fetched has the host of the seed URL; a link   *)
(* whose resolved host differs from the host of the page it was found on   *)
(* is never handed to a child task, and a same-host link is, when the      *)
(* page recurses.                                                          *)
(***************************************************************************)
C6_SameHostOnly ==
  /\ \A u \in visited_urls : u = args_url \/ u.host = args_url.host
  /\ \A t \in Tasks :
       /\ t # Root => tasks[t].url.host = tasks[Parent(t)].url.host
       /\ tasks[t].fetch = "ok" /\ tasks[t].pc \in {"join", "done"}
          /\ settings.recursive /\ tasks[t].depth < settings.depth =>
            LET hrefs == Web(tasks[t].url).hrefs
            IN \A i \in 1..Len(hrefs) :
                 LET j == UrlJoin(tasks[t].url, hrefs[i])
                 IN j.ok =>
                      ((\E k \in Kids(t) : tasks[k].url = j.url)
                         <=> j.url.host = tasks[t].url.host)

\* the seed page, on site.example, links to other.example/x and to /a; it
\* has handed its links to join_all and /a has been fetched
C6_Witness ==
  /\ tasks[Root].pc = "join"
  /\ \E i \in 1..Len(Web(args_url).hrefs) : Web(args_url).hrefs[i] = O
  /\ \E k \in Kids(Root) : tasks[k].url = A /\ tasks[k].fetch = "ok"

(***************************************************************************)
(* C7: a task whose page fetch fails downloads no image, spawns no child   *)
(* and returns Ok; its URL stays in the registry; and every sibling task   *)
(* of the same parent still runs to completion.                            *)
(***************************************************************************)
Failed(t) == tasks[t].fetch = "err"

Siblings(t) == IF t = Root THEN {} ELSE Kids(Parent(t)) \ {t}

C7_FailedPageIsInert ==
  \A t \in Tasks : Failed(t) =>
    /\ tasks[t].pc = "done" /\ tasks[t].result = "Ok"
    /\ tasks[t].dl = << >> /\ tasks[t].imgs = << >>
    /\ tasks[t].nkids = 0 /\ \A k \in Tasks : k = Root \/ Parent(k) # t
    /\ tasks[t].claimed = "true" /\ tasks[t].url \in visited_urls
    /\ t # Root /\ tasks[Parent(t)].pc = "done" =>
         \A s \in Siblings(t) : tasks[s].pc = "done" /\ tasks[s].result = "Ok"

\* every task with a failed fetch has all its siblings completed
FailedSettled == \A t \in Tasks : Failed(t) => \A s \in Siblings(t) : tasks[s].pc = "done"

C7_FetchFailureIsolated ==
  /\ []C7_FailedPageIsInert
  /\ ~FailedSettled ~> FailedSettled

\* the fetch of /a (a page with one image and two anchors) failed at a depth
\* below N; its sibling /b was fetched, has recursed into its two links and
\* is done
C7_Witness ==
  /\ settings.depth >= 2
  /\ \E t \in Tasks :
       /\ tasks[t].url = A /\ Failed(t)
       /\ \E s \in Siblings(t) :
            /\ tasks[s].url = B /\ tasks[s].fetch = "ok"
            /\ tasks[s].nkids = 2 /\ tasks[s].pc = "done"

(***************************************************************************)
(* C8: when the download of one image of a page fails, every remaining     *)
(* image of the page is still attempted and the page's recursion step      *)
(* still runs; of three images whose second fails, the first and the       *)
(* third are written.                                                      *)
(***************************************************************************)
C8_ImageFailureIsolated ==
  /\ \A t \in Tasks :
       /\ \A i \in 1..Len(tasks[t].dl) :
            tasks[t].dl[i] => Filename(tasks[t].imgs[i]) \in files
       /\ tasks[t].fetch = "ok" /\ tasks[t].pc \in {"join", "done"} =>
            /\ Len(tasks[t].dl) = Len(tasks[t].imgs)
            /\ tasks[t].result \in {"none", "Ok"}
            /\ settings.recursive /\ tasks[t].depth < settings.depth =>
                 /\ tasks[t].nkids = Len(tasks[t].links)
                 /\ \A i \in 1..Len(tasks[t].links) : Append(t, i) \in Tasks
  /\ tasks[Root].dl = <<TRUE, FALSE, TRUE>> =>
       {<<"1", "jpg">>, <<"3", "JPG">>} \subseteq files

\* the seed page has three images; the second download failed, the first
\* and the third succeeded, and the page has gone on to recurse
C8_Witness ==
  /\ Len(tasks[Root].imgs) = 3
  /\ tasks[Root].dl = <<TRUE, FALSE, TRUE>>
  /\ tasks[Root].pc = "join"
  /\ tasks[Root].nkids = 2

(***************************************************************************)
(* C9: for every combination of page-level and image-level failures,       *)
(* get_page_content returns Ok: no failure reaches a parent task or the    *)
(* top level, the error branches of process_links and main are not taken,  *)
(* and the crawl ends with the success report.                             *)
(***************************************************************************)
C9_FailuresNeverPropagate ==
  /\ \A t \in Tasks : tasks[t].result \in {"none", "Ok"}
  /\ "Error in recursive fetch" \notin out
  /\ "Error during scraping" \notin out
  /\ main_pc = "exited" => "Scraping completed successfully!" \in out

\* a finished crawl in which the fetch of a child page failed and an image
\* download failed
C9_Witness ==
  /\ main_pc = "exited"
  /\ \E t \in Tasks : t # Root /\ Failed(t)
  /\ \E t \in Tasks : \E i \in 1..Len(tasks[t].dl) : ~tasks[t].dl[i]
  /\ {"Error processing", "Failed to download"} \subseteq out

(***************************************************************************)
(* C10: a seed URL that fails to parse as a URL is fatal: the crawl is     *)
(* reported as an error at the top level, not as completed successfully.   *)
(***************************************************************************)
C10_BadSeedIsFatal ==
  main_pc = "exited" /\ ~UrlParseOk(args_url) =>
    /\ "Error during scraping" \in out
    /\ "Scraping completed successfully!" \notin out

(***************************************************************************)
(* C11: a page whose GET returns a non-success status is a fetch failure:  *)
(* the page is skipped, and no image or link of the response body is       *)
(* extracted, downloaded or followed.                                      *)
(***************************************************************************)
C11_NonSuccessPageSkipped ==
  \A t \in Tasks : Status(tasks[t].url) # "200 OK" =>
    /\ tasks[t].fetch # "ok"
    /\ tasks[t].imgs = << >> /\ tasks[t].links = << >>
    /\ tasks[t].dl = << >> /\ tasks[t].nkids = 0

(***************************************************************************)
(* C12: an image whose GET returns a non-success status is an image-level  *)
(* failure: download_image returns an error for it and creates or          *)
(* overwrites no file for it under the output directory.                   *)
(***************************************************************************)
C12_NonSuccessImageSkipped ==
  \A t \in Tasks : \A i \in 1..Len(tasks[t].dl) :
    Status(tasks[t].imgs[i]) # "200 OK" =>
      /\ ~tasks[t].dl[i]
      /\ Filename(tasks[t].imgs[i]) \notin files

(***************************************************************************)
(* C13: on a finite link graph, with cycles and reciprocal links, and for  *)
(* every depth setting, the crawl terminates: every task completes and the *)
(* top-level call returns, given that every network operation returns.     *)
(***************************************************************************)
Finished == main_pc = "exited" /\ \A t \in Tasks : tasks[t].pc = "done"

C13_CrawlTerminates == <>Finished

\* a finished crawl that met a cycle: a page three links down links back to
\* the seed, and two pages link to the same page
C13_Witness ==
  /\ Finished
  /\ \E t \in Tasks : t # Root /\ tasks[t].url = args_url /\ tasks[t].claimed = "false"
  /\ \E t \in Tasks : tasks[t].url = D /\ tasks[t].claimed = "false"

(***************************************************************************)
(* C14: a task completes only after every task it spawned has completed,   *)
(* transitively; once the top-level get_page_content has returned no task  *)
(* is in flight and no claim, fetch or file write happens any more.        *)
(***************************************************************************)
ChildrenOf(t) == {k \in Tasks : k # Root /\ Parent(k) = t}

C14_NoTaskOutlivesParent ==
  /\ \A t \in Tasks : tasks[t].pc = "done" =>
       \A k \in ChildrenOf(t) : tasks[k].pc = "done"
  /\ tasks[Root].pc = "done" => \A t \in Tasks : tasks[t].pc = "done"

C14_StructuredConcurrency ==
  /\ []C14_NoTaskOutlivesParent
  /\ [][tasks[Root].pc = "done" =>
          UNCHANGED <<visited_urls, tasks, files>>]_vars

\* the top-level call has returned from a crawl three levels deep
C14_Witness ==
  /\ tasks[Root].pc = "done"
  /\ \E t \in Tasks : Len(t) >= 3 /\ tasks[t].fetch = "ok"
  /\ \E t \in Tasks : Cardinality(ChildrenOf(t)) >= 2

(***************************************************************************)
(* C15: download_image writes to the output directory joined with the last *)
(* path segment of the image URL; when the path has no last segment (root  *)
(* path or trailing slash) it writes to unknown.jpg in the output          *)
(* directory.                                                              *)
(***************************************************************************)
LastSegment(u) == IF u.path = << >> THEN <<"">> ELSE u.path[Len(u.path)]

C15_FilenameOrFallback ==
  \A t \in Tasks : \A i \in 1..Len(tasks[t].dl) :
    LET u == tasks[t].imgs[i]
        name == IF LastSegment(u) = <<"">> THEN <<"unknown", "jpg">> ELSE LastSegment(u)
    IN /\ Filename(u) = name
       /\ tasks[t].dl[i] => name \in files

(***************************************************************************)
(* C16: the extractor accepts an image candidate only if the text after    *)
(* the last '.' of its URL path (query and fragment are not part of the    *)
(* path), compared case-insensitively, is one of jpg, jpeg, png, gif, bmp; *)
(* a.svg yields no download and a.JPG yields one.                          *)
(***************************************************************************)
PathExtension(u) ==
  IF Len(LastSegment(u)) >= 2 THEN LastSegment(u)[Len(LastSegment(u))] ELSE ""

C16_ExtensionOfPath ==
  /\ \A t \in Tasks : \A i \in 1..Len(tasks[t].imgs) :
       ToLower(PathExtension(tasks[t].imgs[i])) \in {"jpg", "jpeg", "png", "gif", "bmp"}
  /\ <<"4", "svg">> \notin files
  /\ Len(tasks[Root].dl) >= 3 /\ tasks[Root].dl[3] /\ args_url = S =>
       <<"3", "JPG">> \in files

(***************************************************************************)
(* C17: an image candidate whose src begins with data: never appears in    *)
(* the extracted image sequence and never triggers a download, whatever    *)
(* the rest of the value is, a value ending in an accepted extension       *)
(* included.                                                               *)
(***************************************************************************)
C17_DataUrlNeverDownloaded ==
  /\ \A t \in Tasks :
       /\ \A i \in 1..Len(tasks[t].imgs) : tasks[t].imgs[i].scheme # "data"
       /\ tasks[t].fetch = "ok" =>
            LET srcs == Web(tasks[t].url).srcs
            IN \A j \in 1..Len(srcs) : srcs[j].scheme = "data" =>
                 \A i \in 1..Len(tasks[t].imgs) :
                   tasks[t].imgs[i].path # srcs[j].path
  /\ ImgData.path[Len(ImgData.path)] \notin files

\* the seed page holds a data: src that ends in ".png"; the page was
\* fetched and its image loop has run to the end with every download
\* succeeding
C17_Witness ==
  /\ tasks[Root].fetch = "ok"
  /\ \E j \in 1..Len(Web(args_url).srcs) :
       /\ Web(args_url).srcs[j].scheme = "data"
       /\ has_valid_extension(Web(args_url).srcs[j])
  /\ tasks[Root].dl = <<TRUE, TRUE, TRUE>>
  /\ tasks[Root].pc \in {"join", "done"}

(***************************************************************************)
(* C18: a task stopped by the depth/mode gate has no effect: the registry  *)
(* is unchanged (the URL is not claimed), nothing is fetched or written,   *)
(* and the task returns Ok; a URL the gate turned away can still be        *)
(* claimed by another task at an allowed depth.                            *)
(***************************************************************************)
Gated(t) ==
  \/ settings.recursive /\ tasks[t].depth > settings.depth
  \/ ~settings.recursive /\ tasks[t].depth >= 1

C18_GatedTaskInert ==
  /\ \A t \in Tasks : t # Root /\ Gated(t) =>
       /\ tasks[t].claimed = "none" /\ tasks[t].fetch = "none"
       /\ tasks[t].imgs = << >> /\ tasks[t].dl = << >> /\ tasks[t].nkids = 0
       /\ tasks[t].pc \in {"start", "done"}
       /\ tasks[t].pc = "done" => tasks[t].result = "Ok"
  /\ visited_urls = {tasks[t].url : t \in {c \in Tasks : Claiming(c)}}
  /\ \A t \in Tasks : tasks[t].claimed = "false" =>
       \E f \in Tasks : tasks[f].url = tasks[t].url /\ tasks[f].claimed = "true"

C18_GateHasNoEffect ==
  /\ []C18_GatedTaskInert
  /\ [][\A t \in Tasks :
          t # Root /\ Gated(t) /\ tasks'[t] # tasks[t] =>
            /\ UNCHANGED <<visited_urls, files, out>>
            /\ tasks' = [tasks EXCEPT ![t] =
                           [tasks[t] EXCEPT !.pc = "done", !.result = "Ok"]]]_vars

\* two calls on one URL: the gate has returned the one made too deep, in
\* recursive or in non-recursive mode, and the one at an allowed depth has
\* claimed the URL and fetched it
C18_Witness ==
  \E t1, t2 \in Tasks :
    /\ t1 # Root /\ t2 # Root
    /\ tasks[t1].url = tasks[t2].url
    /\ Gated(t1) /\ tasks[t1].pc = "done" /\ tasks[t1].result = "Ok"
    /\ ~Gated(t2) /\ tasks[t2].claimed = "true" /\ tasks[t2].fetch = "ok"
    /\ visited_urls = {tasks[t2].url}

(***************************************************************************)
(* C19, as stated: the image downloads of one page run concurrently with   *)
(* each other, no order imposed between them: while none of them has       *)
(* finished, all of them are in flight.                                    *)
(***************************************************************************)
C19_DownloadsConcurrent ==
  \A t \in Tasks :
    tasks[t].pc = "download" /\ tasks[t].dl = << >> =>
      InFlight(t) = 1..Len(tasks[t].imgs)

(***************************************************************************)
(* C19, amended: the image downloads of one page run one at a time, in     *)
(* document order: at most one is in flight, and it is the one that        *)
(* follows the downloads that have finished (succeeded or failed).         *)
(***************************************************************************)
C19_DownloadsSequential ==
  \A t \in Tasks :
    /\ Cardinality(InFlight(t)) <= 1
    /\ InFlight(t) \subseteq {Len(tasks[t].dl) + 1}
    /\ tasks[t].pc = "download" /\ Len(tasks[t].dl) < Len(tasks[t].imgs) =>
         InFlight(t) = {Len(tasks[t].dl) + 1}

\* the first download of the seed page's three images is in flight and
\* nothing of the page has been written yet
C19_Witness ==
  /\ Len(tasks[Root].imgs) = 3
  /\ tasks[Root].dl = << >>
  /\ InFlight(Root) = {1}
  /\ files = {}

(***************************************************************************)
(* C20: a child task claims and fetches only after its parent's fetch and  *)
(* extraction have completed, and only after every image download of the   *)
(* parent page has finished, succeeded or failed.                          *)
(***************************************************************************)
C20_ChildAfterParentPage ==
  \A t \in Tasks : t # Root =>
    LET p == tasks[Parent(t)] IN
    /\ p.fetch = "ok"
    /\ p.pc \in {"join", "done"}
    /\ Len(p.dl) = Len(p.imgs)
    /\ tasks[t].url = p.links[t[Len(t)]]
    /\ tasks[t].depth = p.depth + 1

\* a child of the seed page has claimed its URL and fetched it; the seed
\* page's three downloads have all finished, the second one in failure
C20_Witness ==
  \E t \in Tasks :
    /\ Parent(t) = Root /\ t # Root
    /\ tasks[t].claimed = "true" /\ tasks[t].fetch = "ok"
    /\ tasks[Root].dl = <<TRUE, FALSE, TRUE>>
    /\ tasks[Root].pc = "join"

(***************************************************************************)
(* C21: a crawl with recursive = true and depth setting 0 performs exactly *)
(* the claims, fetches and image downloads of a crawl of the same seed     *)
(* with recursive = false: the seed page is processed and no child task is *)
(* spawned.  Every step of the one crawl is a step of the other from the   *)
(* same state, both ways, so the two have the same runs.                   *)
(***************************************************************************)
\* the settings whose crawl the claim equates with that of st
Twins(st) ==
  IF st.recursive /\ st.depth = 0
    THEN {[st EXCEPT !.recursive = FALSE, !.depth = d] : d \in 0..MaxDepth}
  ELSE IF ~st.recursive
    THEN {[st EXCEPT !.recursive = TRUE, !.depth = 0]}
  ELSE {}

C21_SeedOnly ==
  Twins(settings) # {} =>
    /\ Tasks = {Root}
    /\ visited_urls \subseteq {args_url}
    /\ tasks[Root].pc = "done" /\ tasks[Root].fetch = "ok" =>
         Len(tasks[Root].dl) = Len(tasks[Root].imgs)

C21_DepthZeroIsNonRecursive ==
  /\ []C21_SeedOnly
  /\ [][\A tw \in Twins(settings) : NextUnder(tw)]_vars

\* a finished crawl with recursive = true and depth 0 of a seed page that
\* was fetched, holds two same-host links and had its three images attempted
C21_Witness ==
  /\ settings.recursive /\ settings.depth = 0
  /\ main_pc = "exited"
  /\ tasks[Root].fetch = "ok"
  /\ Len(tasks[Root].links) = 2
  /\ Len(tasks[Root].dl) = 3
  /\ visited_urls = {args_url}

====
